---- MODULE Spec2Model ----
(***************************************************************************)
(* Model of the tool-augmented reasoning loop of the coding agent          *)
(* (src/agent.py, src/tools/file_ops.py, src/cli.py).                      *)
(*                                                                         *)
(* Representation of values                                                *)
(*   - a Python str is a sequence of tokens (TLA+ strings); concatenation  *)
(*     and f-string formatting are \o, "" is << >>;                        *)
(*   - Python None in a str-typed place is the reserved value None;        *)
(*   - a dict is a record; "key in d" is key \in DOMAIN d;                 *)
(*   - a list is a sequence; a None list argument is << >> (both falsy);   *)
(*   - a file-system path is a sequence of components, each component a    *)
(*     sequence of characters, so that str() and startswith() work on      *)
(*     characters as they do in the source;                                *)
(*   - the history file is missing, a directory, or a JSON text: the       *)
(*     sequence of tokens json.dump writes and json.load parses.           *)
(***************************************************************************)
EXTENDS Integers, Sequences, FiniteSets, TLC

VARIABLES
    messages,                \* self.messages: the in-memory history
    store,                   \* contents of self.history_file
    pc,                      \* position of the single thread of control
    user_input,              \* react_loop argument
    window,                  \* react_loop local `messages` (the API window)
    last_complete_response,  \* react_loop local
    iterations,              \* react_loop local
    content_blocks,          \* react_loop local
    error,                   \* react_loop local
    tool_uses,               \* react_loop local / _execute_tool_calls argument
    tool_results,            \* _execute_tool_calls local
    answer,                  \* value returned by process_message
    turn0,                   \* history: len(self.messages) when the turn began
    calls,                   \* history: inference calls made this turn
    tool_replies,            \* history: replies of this turn that held a ToolUseBlock
    opened,                  \* history: paths handed to open() this turn
    ended,                   \* history: how the turn ended
    bm,                      \* probe of build_messages_list (SpecBuild)
    inflight                 \* history: awaited operations that have not returned

vars == <<messages, store, pc, user_input, window, last_complete_response,
          iterations, content_blocks, error, tool_uses, tool_results, answer,
          turn0, calls, tool_replies, opened, ended, bm, inflight>>

----------------------------------------------------------------------------
(* Bounds of the model *)

MaxMessages == 3      \* a new turn starts only while len(self.messages) < MaxMessages
MaxBlocks == 2        \* content blocks per model reply
MaxProbeLen == 3      \* history length in the build_messages_list probe
MaxProbeWindow == 3   \* max_history in the build_messages_list probe

----------------------------------------------------------------------------
(* Strings *)

None == <<"<None>">>

Falsy(s) == s = None \/ s = << >>

Str(s) == [str |-> s]

RECURSIVE Join(_, _)
\* sep.join(strs)
Join(sep, strs) ==
    IF strs = << >> THEN << >>
    ELSE IF Len(strs) = 1 THEN strs[1]
    ELSE strs[1] \o sep \o Join(sep, Tail(strs))

RECURSIVE Flatten(_)
Flatten(ss) == IF ss = << >> THEN << >> ELSE ss[1] \o Flatten(Tail(ss))

StartsWith(s, prefix) ==
    Len(s) >= Len(prefix) /\ SubSeq(s, 1, Len(prefix)) = prefix

Max(a, b) == IF a >= b THEN a ELSE b

----------------------------------------------------------------------------
(* File system seen by read_file *)

Slash == <<"/">>
DotDot == <<".", ".">>
Dot == <<".">>

\* str(path) of an absolute path given by its components
PathStr(parts) ==
    IF parts = << >> THEN Slash
    ELSE Flatten([i \in 1..Len(parts) |-> Slash \o parts[i]])

RECURSIVE ResolveFrom(_, _)
ResolveFrom(done, rest) ==
    IF rest = << >> THEN done
    ELSE IF rest[1] = Dot THEN ResolveFrom(done, Tail(rest))
    ELSE IF rest[1] = DotDot
         THEN ResolveFrom(IF done = << >> THEN done
                          ELSE SubSeq(done, 1, Len(done) - 1), Tail(rest))
    ELSE ResolveFrom(Append(done, rest[1]), Tail(rest))

\* Path.resolve(): the absolute path with "." and ".." removed
Resolve(parts) == ResolveFrom(<< >>, parts)

\* working_directory / path: an absolute right operand replaces the left one
PathJoin(base, p) == IF p.abs THEN p.parts ELSE base \o p.parts

\* self.working_directory = Path(working_directory).resolve()
working_directory == << <<"w">> >>

\* the readable files of the machine, by resolved path, with their text
FileInRoot == << <<"w">>, <<"f">> >>
FileInSibling == << <<"w", "2">>, <<"s">> >>
FileOutside == << <<"e", "t", "c">>, <<"p">> >>
Files == {FileInRoot, FileInSibling, FileOutside}
FileText(parts) ==
    IF parts = FileInRoot THEN <<"text of /w/f">>
    ELSE IF parts = FileInSibling THEN <<"text of /w2/s">>
    ELSE <<"text of /etc/p">>

\* path arguments: "f", "../w2/s", "../etc/p", "" (the default of input.get)
ArgInRoot == [abs |-> FALSE, parts |-> << <<"f">> >>]
ArgSibling == [abs |-> FALSE, parts |-> << DotDot, <<"w", "2">>, <<"s">> >>]
ArgOutside == [abs |-> FALSE, parts |-> << DotDot, <<"e", "t", "c">>, <<"p">> >>]
ArgEmpty == [abs |-> FALSE, parts |-> << >>]

\* read_file: the result dict and the path handed to open(), if any
read_file(wd, path) ==
    LET file_path == Resolve(PathJoin(wd, path)) IN
    IF ~StartsWith(PathStr(file_path), PathStr(wd))
    THEN [result |-> [error |-> <<"Access denied: path outside working directory">>],
          opened |-> {}]
    ELSE IF file_path \in Files
    THEN [result |-> [success |-> TRUE, content |-> FileText(file_path),
                      path |-> PathStr(file_path)],
          opened |-> {file_path}]
    ELSE [result |-> [error |-> <<"Could not read file: ", "[Errno] ">> \o PathStr(file_path)],
          opened |-> {file_path}]

\* CodingAgent._read_file: the same code on self.working_directory
_read_file(path) == read_file(working_directory, path)

----------------------------------------------------------------------------
(* Content blocks and tools *)

TextBlock(t) == [type |-> "text", text |-> t]
ToolUseBlock(id, name, input) ==
    [type |-> "tool_use", id |-> id, name |-> name, input |-> input]
\* an object that is no content block: it has no attribute `type`
BadBlock == [junk |-> TRUE]

\* tool_use.input.get(key, default)
InputGet(input, key, default) ==
    IF key \in DOMAIN input THEN input[key] ELSE default

NoAttribute(name) == <<"'CodingAgent' object has no attribute '", name, "'">>

\* Dispatch without the except clause around the tool call: the
\* AttributeError of a missing method escapes the loop body
Dispatch_NoExcept(tool_use) ==
    IF tool_use.name = "read_file"
    THEN [raised |-> FALSE,
          result |-> _read_file(InputGet(tool_use.input, "path", ArgEmpty)).result,
          opened |-> _read_file(InputGet(tool_use.input, "path", ArgEmpty)).opened]
    ELSE IF tool_use.name \in {"write_file", "list_files", "search_files"}
    THEN [raised |-> TRUE,
          result |-> [error |-> NoAttribute(tool_use.name)],
          opened |-> {}]
    ELSE [raised |-> FALSE,
          result |-> [error |-> <<"Unknown tool: ", tool_use.name>>],
          opened |-> {}]

\* what the try block of _execute_tool_calls leaves in `result`; raised is
\* TRUE when an exception escapes the loop body. A missing method raises
\* AttributeError inside the try, and the except clause turns it into a result.
Dispatch(tool_use) ==
    IF tool_use.name = "read_file"
    THEN [raised |-> FALSE,
          result |-> _read_file(InputGet(tool_use.input, "path", ArgEmpty)).result,
          opened |-> _read_file(InputGet(tool_use.input, "path", ArgEmpty)).opened]
    ELSE IF tool_use.name = "write_file"
    THEN [raised |-> FALSE,
          result |-> [error |-> <<"Tool execution failed: ">> \o NoAttribute("_write_file")],
          opened |-> {}]
    ELSE IF tool_use.name = "list_files"
    THEN [raised |-> FALSE,
          result |-> [error |-> <<"Tool execution failed: ">> \o NoAttribute("_list_files")],
          opened |-> {}]
    ELSE IF tool_use.name = "search_files"
    THEN [raised |-> FALSE,
          result |-> [error |-> <<"Tool execution failed: ">> \o NoAttribute("_search_files")],
          opened |-> {}]
    ELSE [raised |-> FALSE,
          result |-> [error |-> <<"Unknown tool: ", tool_use.name>>],
          opened |-> {}]

\* json.dumps of a tool result dict
json_dumps(result) ==
    IF "error" \in DOMAIN result
    THEN <<"{\"error\": \"">> \o result.error \o <<"\"}">>
    ELSE <<"{\"success\": true, \"content\": \"">> \o result.content
         \o <<"\", \"path\": \"">> \o result.path \o <<"\"}">>

\* ResultId numbering the results itself instead of copying the block's id
ResultId_Renumbered(tool_use) == tool_use.id + 1

\* the id put on the collected result of tool_use
ResultId(tool_use) == tool_use.id

\* the entry appended to tool_results for one tool_use
ToolResult(tool_use) ==
    [tool_use_id |-> ResultId(tool_use),
     content |-> json_dumps(Dispatch(tool_use).result)]

IsText(block) == block.type = "text"
IsToolUse(block) == block.type = "tool_use"

\* _parse_claude_response: raises on an object without `type`
_parse_claude_response(blocks) ==
    IF \E i \in 1..Len(blocks) : "type" \notin DOMAIN blocks[i]
    THEN [raised |-> TRUE,
          msg |-> <<"'dict' object has no attribute 'type'">>]
    ELSE [raised |-> FALSE,
          text_responses |->
              LET ts == SelectSeq(blocks, IsText) IN [i \in 1..Len(ts) |-> ts[i].text],
          tool_uses |-> SelectSeq(blocks, IsToolUse)]

----------------------------------------------------------------------------
(* History and its store *)

Message(role, content) == [role |-> role, content |-> Str(content)]

\* The history file is a JSON text, here a sequence of tokens: the
\* punctuation of JSON, and inside a string the tokens of the str with the
\* quote and the backslash escaped. The white space of indent=2 is left out.
Quote == "\""
Backslash == "\\"
EscQuote == "\\\""
EscBackslash == "\\\\"

\* json.dump writing the str as it is between the quotes
EscapeTok_Raw(t) == t

EscapeTok(t) ==
    IF t = Quote THEN EscQuote ELSE IF t = Backslash THEN EscBackslash ELSE t

UnescapeTok(t) ==
    IF t = EscQuote THEN Quote ELSE IF t = EscBackslash THEN Backslash ELSE t

\* a str as a JSON string
JsonString(str) == <<Quote>> \o [i \in 1..Len(str) |-> EscapeTok(str[i])] \o <<Quote>>

\* the keys of a record in the order the dict holds them
KeyOrder == <<"role", "content", "timestamp">>

\* the str held under key k of a message dict
FieldStr(msg, k) ==
    IF k = "role" THEN <<msg.role>>
    ELSE IF k = "content" THEN msg.content.str
    ELSE msg[k]

InDomainOf(msg) == [k \in {"role", "content", "timestamp"} |-> k \in DOMAIN msg]

\* one element of self.messages as JSON: an object, or a string when the
\* element is no dict
JsonOfEntry(msg) ==
    IF "scalar" \in DOMAIN msg THEN JsonString(msg.scalar)
    ELSE LET present == InDomainOf(msg)
             keys == SelectSeq(KeyOrder, LAMBDA k : present[k])
             members == [i \in 1..Len(keys) |->
                            JsonString(<<keys[i]>>) \o <<":">>
                            \o JsonString(FieldStr(msg, keys[i]))]
         IN  <<"{">> \o Join(<<",">>, members) \o <<"}">>

\* json.dump(self.messages, f, indent=2): the complete text
json_dump(msgs) ==
    <<"[">> \o Join(<<",">>, [i \in 1..Len(msgs) |-> JsonOfEntry(msgs[i])]) \o <<"]">>

ParseFail == [ok |-> FALSE]

RECURSIVE ParseChars(_, _, _)
\* the inside of a JSON string from position i, up to its closing quote
ParseChars(toks, i, acc) ==
    IF i > Len(toks) THEN ParseFail
    ELSE IF toks[i] = Quote THEN [ok |-> TRUE, val |-> acc, next |-> i + 1]
    ELSE IF toks[i] = Backslash THEN ParseFail
    ELSE ParseChars(toks, i + 1, Append(acc, UnescapeTok(toks[i])))

\* a JSON string at position i
ParseString(toks, i) ==
    IF i <= Len(toks) /\ toks[i] = Quote THEN ParseChars(toks, i + 1, << >>)
    ELSE ParseFail

\* the dict of an object with the given members (key, str), a later member
\* replacing an earlier one of the same key
DictOf(keys, vals) ==
    [k \in {keys[j] : j \in 1..Len(keys)} |->
        LET last == CHOOSE j \in 1..Len(keys) :
                        /\ keys[j] = k
                        /\ \A j2 \in 1..Len(keys) : keys[j2] = k => j2 <= j
        IN  IF k = "role" /\ Len(vals[last]) = 1 THEN vals[last][1]
            ELSE IF k = "content" THEN Str(vals[last])
            ELSE vals[last]]

RECURSIVE ParseMembers(_, _, _, _)
\* the members of an object from position i, up to its closing brace
ParseMembers(toks, i, keys, vals) ==
    LET key == ParseString(toks, i) IN
    IF ~key.ok \/ Len(key.val) # 1 THEN ParseFail
    ELSE IF key.next > Len(toks) \/ toks[key.next] # ":" THEN ParseFail
    ELSE LET v == ParseString(toks, key.next + 1) IN
         IF ~v.ok \/ v.next > Len(toks) THEN ParseFail
         ELSE IF toks[v.next] = ","
         THEN ParseMembers(toks, v.next + 1, Append(keys, key.val[1]), Append(vals, v.val))
         ELSE IF toks[v.next] = "}"
         THEN [ok |-> TRUE, next |-> v.next + 1,
               val |-> DictOf(Append(keys, key.val[1]), Append(vals, v.val))]
         ELSE ParseFail

\* one element of the list at position i
ParseEntry(toks, i) ==
    IF i > Len(toks) THEN ParseFail
    ELSE IF toks[i] = "{" THEN ParseMembers(toks, i + 1, << >>, << >>)
    ELSE LET v == ParseString(toks, i) IN
         IF v.ok THEN [ok |-> TRUE, next |-> v.next, val |-> [scalar |-> v.val]]
         ELSE ParseFail

RECURSIVE ParseEntries(_, _, _)
\* the elements of the list from position i, up to its closing bracket
ParseEntries(toks, i, acc) ==
    LET e == ParseEntry(toks, i) IN
    IF ~e.ok \/ e.next > Len(toks) THEN ParseFail
    ELSE IF toks[e.next] = ","
    THEN ParseEntries(toks, e.next + 1, Append(acc, e.val))
    ELSE IF toks[e.next] = "]" /\ e.next = Len(toks)
    THEN [ok |-> TRUE, val |-> Append(acc, e.val)]
    ELSE ParseFail

\* json.load(f) of a text whose top level is a list; ok is FALSE when
\* json.load raises
json_load(toks) ==
    IF Len(toks) < 2 \/ toks[1] # "[" THEN ParseFail
    ELSE IF toks[2] = "]"
    THEN (IF Len(toks) = 2 THEN [ok |-> TRUE, val |-> << >>] ELSE ParseFail)
    ELSE ParseEntries(toks, 2, << >>)

StoreMissing == [state |-> "missing"]
\* history_file names a directory: it exists, and open() raises on it
StoreDirectory == [state |-> "directory"]
StoreText(toks) == [state |-> "file", text |-> toks]
\* the file as open(.., 'w') leaves it: empty
StoreCorrupt == StoreText(<< >>)
\* the file with the history msgs completely written
StoreOf(msgs) == StoreText(json_dump(msgs))

\* whether json.dump completes once the file is open
SaveOutcomes == {"ok", "write_failed"}

\* save_history: the file after the call. open(.., 'w') raises on a directory
\* and leaves it as it is; otherwise it truncates the file before json.dump
\* writes it, so a failed write leaves an unparsable file. Either failure is
\* caught.
save_history(msgs, file, outcome) ==
    IF file.state = "directory" THEN file
    ELSE IF outcome = "ok" THEN StoreOf(msgs)
    ELSE StoreCorrupt

\* load_history without its except clause: the exception of open() or of
\* json.load() is what the constructor is left with
load_history_NoExcept(file) ==
    IF file.state = "missing" THEN << >>
    ELSE IF file.state = "directory" THEN <<[raised |-> "IsADirectoryError"]>>
    ELSE IF json_load(file.text).ok THEN json_load(file.text).val
    ELSE <<[raised |-> "JSONDecodeError"]>>

\* load_history on self.messages = []: a missing file leaves the list empty,
\* and so does any exception of open() or json.load()
load_history(file) ==
    IF file.state # "file" THEN << >>
    ELSE IF json_load(file.text).ok THEN json_load(file.text).val
    ELSE << >>

\* add_message: the in-memory history after the call
add_message(msgs, role, content) == Append(msgs, Message(role, content))

IsWellFormed(msg) ==
    "scalar" \notin DOMAIN msg /\ "role" \in DOMAIN msg /\ "content" \in DOMAIN msg

CleanMsg(msg) == [role |-> msg.role, content |-> msg.content]

\* self.messages[start_idx:]
SliceFrom(msgs, start_idx) ==
    IF start_idx >= Len(msgs) THEN << >> ELSE SubSeq(msgs, start_idx + 1, Len(msgs))

ToolResultBlock(tr) ==
    [type |-> "tool_result", tool_use_id |-> tr.tool_use_id, content |-> tr.content]

\* HistoryPart keeping the oldest max_history messages instead of the newest
HistoryPart_Oldest(msgs, max_history) ==
    LET kept == SelectSeq(SubSeq(msgs, 1, IF max_history < Len(msgs) THEN max_history
                                          ELSE Len(msgs)), IsWellFormed)
    IN  [i \in 1..Len(kept) |-> CleanMsg(kept[i])]

\* the history part of the window
HistoryPart(msgs, max_history) ==
    LET start_idx == Max(0, Len(msgs) - max_history)
        kept == SelectSeq(SliceFrom(msgs, start_idx), IsWellFormed)
    IN  [i \in 1..Len(kept) |-> CleanMsg(kept[i])]

\* the messages appended for the current turn
Additions(user_in, results, assistant_content) ==
    (IF ~Falsy(user_in) THEN <<[role |-> "user", content |-> Str(user_in)]>> ELSE << >>)
    \o (IF assistant_content # << >>
        THEN <<[role |-> "assistant", content |-> [blocks |-> assistant_content]]>>
        ELSE << >>)
    \o (IF results # << >>
        THEN <<[role |-> "user",
                content |-> [blocks |-> [i \in 1..Len(results) |-> ToolResultBlock(results[i])]]]>>
        ELSE << >>)

build_messages_list(msgs, user_in, results, assistant_content, max_history) ==
    HistoryPart(msgs, max_history) \o Additions(user_in, results, assistant_content)

----------------------------------------------------------------------------
(* The inference collaborator *)

\* what the model may put in one reply, before ids are given
BlockTemplates ==
    { TextBlock(<<"a">>),
      TextBlock(<<"see ", Quote, "config.json", Quote>>),
      [type |-> "tool_use", name |-> "read_file", input |-> [path |-> ArgInRoot]],
      [type |-> "tool_use", name |-> "read_file", input |-> [path |-> ArgSibling]],
      [type |-> "tool_use", name |-> "read_file", input |-> [path |-> ArgOutside]],
      [type |-> "tool_use", name |-> "write_file",
       input |-> [path |-> ArgInRoot, content |-> <<"x">>]],
      [type |-> "tool_use", name |-> "delete_everything", input |-> [force |-> TRUE]] }

\* the API gives every tool_use block of a reply its own id
WithIds(ts) ==
    [i \in 1..Len(ts) |->
        IF ts[i].type = "tool_use" THEN ToolUseBlock(i, ts[i].name, ts[i].input)
        ELSE ts[i]]

Contents ==
    { WithIds(ts) : ts \in UNION { [1..n -> BlockTemplates] : n \in 0..MaxBlocks } }
    \cup { <<BadBlock>> }

\* what self.client.messages.create does: returns content, or raises
Outcomes ==
    { [kind |-> "content", content |-> c] : c \in Contents }
    \cup { [kind |-> "APIError", msg |-> <<"overloaded">>],
           [kind |-> "Exception", msg |-> <<"connection reset">>] }

\* _call_claude: the pair (content, error)
_call_claude(outcome) ==
    IF outcome.kind = "content"
    THEN [content_blocks |-> outcome.content, error |-> None]
    ELSE IF outcome.kind = "APIError"
    THEN [content_blocks |-> << >>, error |-> <<"API Error: ">> \o outcome.msg]
    ELSE [content_blocks |-> << >>,
          error |-> <<"Unexpected error calling Claude API: ">> \o outcome.msg]

----------------------------------------------------------------------------
(* react_loop and process_message *)

safety_limit == 20
max_history_default == 20

UserInputs == { <<"read config.json">> }

Fallback == <<"I couldn't generate a response.">>
LimitNote ==
    <<"\n\n(Note: I reached my processing limit. You may want to break this down into smaller steps.)">>

\* the operation started by `await self._call_claude(messages)` in
\* iteration n of the while loop
AwaitModel(n) == {<<"inference", n>>}

\* the for loop starting every tool of the batch from position k on at once,
\* as a gather over the requests would
AwaitTool_Gather(tus, k) == {<<"tool", i>> : i \in k..Len(tus)}

\* the operations started when the for loop of _execute_tool_calls reaches
\* position k: the one tool call it awaits there
AwaitTool(tus, k) == IF k <= Len(tus) THEN {<<"tool", k>>} ELSE {}

\* the "Prepare final response" statement
FinalResponse(lcr, its) ==
    IF Falsy(lcr) THEN Fallback
    ELSE IF its >= safety_limit THEN lcr \o LimitNote
    ELSE lcr

ErrorMsg(err) == <<"Error: ">> \o err
UnexpectedMsg(e) == <<"Unexpected error processing message: ">> \o e

NoProbe == [phase |-> "off"]

Idle ==
    /\ user_input = None
    /\ window = << >>
    /\ last_complete_response = None
    /\ iterations = 0
    /\ content_blocks = << >>
    /\ error = None
    /\ tool_uses = << >>
    /\ tool_results = << >>
    /\ answer = None
    /\ turn0 = 0
    /\ calls = 0
    /\ tool_replies = 0
    /\ opened = {}
    /\ ended = "none"
    /\ inflight = {}

\* the history files the agent may be constructed on
EarlierHistory ==
    <<Message("user", <<"earlier question">>),
      Message("assistant", <<"you said ", Quote, "hi", Quote>>)>>

\* a file that an interrupted json.dump left: the text up to some point
StorePartial == StoreText(SubSeq(json_dump(EarlierHistory), 1, Len(json_dump(EarlierHistory)) - 3))

InitStores ==
    { StoreMissing, StoreCorrupt, StorePartial, StoreDirectory, StoreOf(EarlierHistory) }

\* __init__: self.messages = [] and load_history()
Init ==
    /\ store \in InitStores
    /\ messages = load_history(store)
    /\ pc = "prompt"
    /\ Idle
    /\ bm = NoProbe

\* cli main: 'clear'
CliClear ==
    /\ pc = "prompt"
    /\ messages' = << >>
    /\ \E o \in SaveOutcomes : store' = save_history(messages', store, o)
    /\ UNCHANGED <<pc, user_input, window, last_complete_response, iterations,
                   content_blocks, error, tool_uses, tool_results, answer, turn0,
                   calls, tool_replies, opened, ended, bm, inflight>>

\* the file at the points of save_history where the process can end: before
\* open(), after open() has truncated the file, after json.dump has written
\* any part of the text, and after it has written all of it
KillPoints(file, msgs) ==
    IF file.state = "directory" THEN {file}
    ELSE {file} \cup { StoreText(SubSeq(json_dump(msgs), 1, n)) :
                         n \in 0..Len(json_dump(msgs)) }

\* the process is terminated inside the save_history of 'clear' or of
\* add_message("user", ..): no handler runs, the file stays as it is
KilledInSave ==
    /\ pc = "prompt"
    /\ \E msgs \in {<< >>} \cup {add_message(messages, "user", u) : u \in UserInputs} :
        /\ Len(msgs) <= MaxMessages
        /\ messages' = msgs
        /\ store' \in KillPoints(store, msgs)
    /\ pc' = "dead"
    /\ UNCHANGED <<user_input, window, last_complete_response, iterations,
                   content_blocks, error, tool_uses, tool_results, answer, turn0,
                   calls, tool_replies, opened, ended, bm, inflight>>

\* react_loop calling the model before the user message is recorded
ProcessMessage_CallFirst ==
    /\ pc = "prompt"
    /\ Len(messages) < MaxMessages
    /\ \E u \in UserInputs :
        /\ user_input' = u
        /\ turn0' = Len(messages)
        /\ window' = build_messages_list(messages, u, << >>, << >>, max_history_default)
    /\ last_complete_response' = None
    /\ iterations' = 1
    /\ calls' = 1
    /\ pc' = "await_model"
    /\ inflight' = AwaitModel(calls')
    /\ UNCHANGED <<messages, store, content_blocks, error, tool_uses, tool_results,
                   answer, tool_replies, opened, ended, bm>>

\* react_loop building its first window from the history file instead of
\* self.messages
ProcessMessage_WindowFromStore ==
    /\ pc = "prompt"
    /\ Len(messages) < MaxMessages
    /\ \E u \in UserInputs, o \in SaveOutcomes :
        /\ user_input' = u
        /\ turn0' = Len(messages)
        /\ messages' = add_message(messages, "user", u)
        /\ store' = save_history(messages', store, o)
        /\ window' = build_messages_list(load_history(store'), u, << >>, << >>,
                                         max_history_default)
    /\ last_complete_response' = None
    /\ iterations' = 1
    /\ calls' = 1
    /\ pc' = "await_model"
    /\ inflight' = AwaitModel(calls')
    /\ UNCHANGED <<content_blocks, error, tool_uses, tool_results, answer,
                   tool_replies, opened, ended, bm>>

\* process_message -> react_loop, up to the first await of _call_claude
\* (iterations = 0 < safety_limit, so the loop body is entered)
ProcessMessage ==
    /\ pc = "prompt"
    /\ Len(messages) < MaxMessages
    /\ \E u \in UserInputs, o \in SaveOutcomes :
        /\ user_input' = u
        /\ turn0' = Len(messages)
        /\ messages' = add_message(messages, "user", u)
        /\ store' = save_history(messages', store, o)
        /\ window' = build_messages_list(messages', u, << >>, << >>, max_history_default)
    /\ last_complete_response' = None
    /\ iterations' = 1
    /\ calls' = 1
    /\ pc' = "await_model"
    /\ inflight' = AwaitModel(calls')
    /\ UNCHANGED <<content_blocks, error, tool_uses, tool_results, answer,
                   tool_replies, opened, ended, bm>>

\* process_message without its except clause: the exception leaves it
Unexpected_Propagates(e, o) ==
    /\ messages' = messages
    /\ store' = store
    /\ answer' = None
    /\ pc' = "raised"
    /\ ended' = "fault"

\* the except clause of process_message, entered with exception text e
Unexpected(e, o) ==
    /\ messages' = add_message(messages, "assistant", UnexpectedMsg(e))
    /\ store' = save_history(messages', store, o)
    /\ answer' = UnexpectedMsg(e)
    /\ pc' = "returned"
    /\ ended' = "fault"

\* ReplyError that returns the error text without recording it in the history
ReplyError_NotPersisted(r, o) ==
    /\ messages' = messages
    /\ store' = store
    /\ answer' = ErrorMsg(r.error)
    /\ pc' = "returned"
    /\ ended' = "error"
    /\ UNCHANGED <<last_complete_response, tool_uses, tool_replies>>

\* _call_claude returned an error: lines 199-202
ReplyError(r, o) ==
    /\ messages' = add_message(messages, "assistant", ErrorMsg(r.error))
    /\ store' = save_history(messages', store, o)
    /\ answer' = ErrorMsg(r.error)
    /\ pc' = "returned"
    /\ ended' = "error"
    /\ UNCHANGED <<last_complete_response, tool_uses, tool_replies>>

\* the reply was parsed: lines 205-216, up to the first tool
ReplyParsed(r) ==
    LET parsed == _parse_claude_response(r.content_blocks) IN
    /\ last_complete_response' =
          IF parsed.text_responses # << >>
          THEN Join(<<"\n">>, parsed.text_responses)
          ELSE last_complete_response
    /\ tool_uses' = parsed.tool_uses
    /\ IF parsed.tool_uses = << >>
       THEN \* break: the loop is left and the function ends without a return
            /\ answer' = None
            /\ pc' = "returned"
            /\ ended' = "break"
            /\ tool_replies' = tool_replies
       ELSE /\ answer' = answer
            /\ pc' = "await_tool"
            /\ ended' = ended
            /\ tool_replies' = tool_replies + 1
    /\ UNCHANGED <<messages, store>>

\* the awaited _call_claude completes
ModelReplies ==
    /\ pc = "await_model"
    /\ \E out \in Outcomes, o \in SaveOutcomes :
        LET r == _call_claude(out) IN
        /\ content_blocks' = r.content_blocks
        /\ error' = r.error
        /\ IF ~Falsy(r.error) THEN ReplyError(r, o)
           ELSE IF _parse_claude_response(r.content_blocks).raised
           THEN /\ Unexpected(_parse_claude_response(r.content_blocks).msg, o)
                /\ UNCHANGED <<last_complete_response, tool_uses, tool_replies>>
           ELSE ReplyParsed(r)
    /\ tool_results' = << >>
    /\ inflight' = (inflight \ AwaitModel(calls))
                      \cup (IF pc' = "await_tool" THEN AwaitTool(tool_uses', 1) ELSE {})
    /\ UNCHANGED <<user_input, window, iterations, turn0, calls, opened, bm>>

\* the loop body ending after the window is rebuilt, so that the while loop
\* goes on to the next _call_claude
AfterBatch_Loops(results, o) ==
    /\ window' = build_messages_list(messages, None, results, content_blocks,
                                     max_history_default)
    /\ answer' = answer
    /\ messages' = messages
    /\ store' = store
    /\ pc' = "await_model"
    /\ ended' = ended

\* lines 219-234 of react_loop, after _execute_tool_calls returned results
AfterBatch(results, o) ==
    /\ window' = build_messages_list(messages, None, results, content_blocks,
                                     max_history_default)
    /\ answer' = FinalResponse(last_complete_response, iterations)
    /\ messages' = add_message(messages, "assistant", answer')
    /\ store' = save_history(messages', store, o)
    /\ pc' = "returned"
    /\ ended' = "final"

\* one iteration of the for loop of _execute_tool_calls; after the last one,
\* the rest of the loop body of react_loop
ExecuteTool ==
    /\ pc = "await_tool"
    /\ LET tool_use == tool_uses[Len(tool_results) + 1]
           done == Dispatch(tool_use)
           results == Append(tool_results, ToolResult(tool_use))
       IN
        /\ opened' = opened \cup done.opened
        /\ \E o \in SaveOutcomes :
            IF done.raised
            THEN /\ Unexpected(done.result.error, o)
                 /\ UNCHANGED <<tool_results, window>>
            ELSE /\ tool_results' = results
                 /\ IF Len(results) < Len(tool_uses)
                    THEN UNCHANGED <<messages, store, window, answer, pc, ended>>
                    ELSE AfterBatch(results, o)
    /\ inflight' = (inflight \ {<<"tool", Len(tool_results) + 1>>})
                      \cup (IF pc' = "await_tool"
                            THEN AwaitTool(tool_uses, Len(tool_results) + 2)
                            ELSE {})
    /\ UNCHANGED <<user_input, last_complete_response, iterations, content_blocks,
                   error, tool_uses, turn0, calls, tool_replies, bm>>

\* process_message returns to the cli loop, which prompts again
Return ==
    /\ pc = "returned"
    /\ pc' = "prompt"
    /\ user_input' = None
    /\ window' = << >>
    /\ last_complete_response' = None
    /\ iterations' = 0
    /\ content_blocks' = << >>
    /\ error' = None
    /\ tool_uses' = << >>
    /\ tool_results' = << >>
    /\ answer' = None
    /\ turn0' = 0
    /\ calls' = 0
    /\ tool_replies' = 0
    /\ opened' = {}
    /\ ended' = "none"
    /\ UNCHANGED <<messages, store, bm, inflight>>

Next ==
    \/ CliClear
    \/ KilledInSave
    \/ ProcessMessage
    \/ ModelReplies
    \/ ExecuteTool
    \/ Return

Spec == Init /\ [][Next]_vars

----------------------------------------------------------------------------
(* build_messages_list on arbitrary histories and window sizes *)

\* records a history file can hold: two clean messages, one with an extra
\* field, a dict without "content", and a value that is no dict
ProbeMsgs ==
    { Message("user", <<"u">>),
      Message("assistant", <<"v">>),
      [role |-> "user", content |-> Str(<<"t">>), timestamp |-> <<"2024-01-01">>],
      [role |-> "assistant"],
      [scalar |-> <<"junk">>] }

ProbeHistories == UNION { [1..n -> ProbeMsgs] : n \in 0..MaxProbeLen }

ProbeToolUse == ToolUseBlock(1, "read_file", [path |-> ArgInRoot])

ProbeArgs ==
    [ phase : {"in"},
      user_in : {None, << >>, <<"q">>},
      results : {<< >>, <<ToolResult(ProbeToolUse)>>},
      assistant_content : {<< >>, <<TextBlock(<<"a">>), ProbeToolUse>>},
      max_history : 0..MaxProbeWindow ]

InitBuild ==
    /\ messages \in ProbeHistories
    /\ store = StoreOf(messages)
    /\ pc = "probe"
    /\ Idle
    /\ bm \in ProbeArgs

\* build_messages_list starting from `messages = self.messages` instead of a
\* new list: what it appends lands in the history
BuildProbe_Aliased ==
    /\ pc = "probe"
    /\ bm.phase = "in"
    /\ bm' = [phase |-> "out",
              user_in |-> bm.user_in,
              results |-> bm.results,
              assistant_content |-> bm.assistant_content,
              max_history |-> bm.max_history,
              out |-> messages \o build_messages_list(messages, bm.user_in, bm.results,
                                          bm.assistant_content, bm.max_history)]
    /\ messages' = bm'.out
    /\ UNCHANGED <<store, pc, user_input, window, last_complete_response,
                   iterations, content_blocks, error, tool_uses, tool_results, answer,
                   turn0, calls, tool_replies, opened, ended, inflight>>

\* one call of build_messages_list; it reads self.messages and writes nothing
BuildProbe ==
    /\ pc = "probe"
    /\ bm.phase = "in"
    /\ bm' = [phase |-> "out",
              user_in |-> bm.user_in,
              results |-> bm.results,
              assistant_content |-> bm.assistant_content,
              max_history |-> bm.max_history,
              out |-> build_messages_list(messages, bm.user_in, bm.results,
                                          bm.assistant_content, bm.max_history)]
    /\ UNCHANGED <<messages, store, pc, user_input, window, last_complete_response,
                   iterations, content_blocks, error, tool_uses, tool_results, answer,
                   turn0, calls, tool_replies, opened, ended, inflight>>

NextBuild == BuildProbe

SpecBuild == InitBuild /\ [][NextBuild]_vars

----------------------------------------------------------------------------
(* Properties *)

\* the messages appended to the history since the turn began
Appended == SubSeq(messages, turn0 + 1, Len(messages))

IsAssistant(msg) == msg.role = "assistant"

TurnOver == pc = "returned"

\* C1: in every turn, however it ends, exactly one message with role
\* assistant is appended to the history.
C1_OneAssistantPerTurn ==
    TurnOver => Len(SelectSeq(Appended, IsAssistant)) = 1

\* C2: a turn in which every reply of the model holds a ToolUseBlock ends
\* after exactly safety_limit inference calls, and its answer is the best
\* answer so far (or the fallback string) followed by the advisory note.
C2_LimitReached ==
    (TurnOver /\ ended \in {"final", "break"} /\ tool_replies = calls)
        => /\ calls = safety_limit
           /\ answer = (IF Falsy(last_complete_response) THEN Fallback
                        ELSE last_complete_response) \o LimitNote

\* C3: when the reply holds no ToolUseBlock the turn ends and the answer
\* returned is the remembered best answer, or the fallback string when no
\* text was produced in the turn.
C3_TextOnlyAnswer ==
    (TurnOver /\ ended \notin {"error", "fault"} /\ tool_uses = << >>)
        => answer = (IF Falsy(last_complete_response) THEN Fallback
                     ELSE last_complete_response)

\* C4: after a tool batch the model is called again: a turn that ran a batch
\* and ended below the safety limit made one more inference call than it ran
\* batches, and its history gained the user message and one assistant answer.
C4_BackToModel ==
    (TurnOver /\ ended \notin {"error", "fault"} /\ tool_replies >= 1
        /\ iterations < safety_limit)
        => /\ calls = tool_replies + 1
           /\ Len(Appended) = 2
           /\ Appended[1] = Message("user", user_input)
           /\ Appended[2] = Message("assistant", answer)

\* C5: a failed inference call ends the turn at once: nothing is pending and
\* no tool ran, the failed call was the last one, one assistant message
\* "Error: <error>" was appended and the same string is the answer.
C5_InferenceErrorEndsTurn ==
    ended = "error"
        => /\ TurnOver
           /\ ~Falsy(error)
           /\ answer = <<"Error: ">> \o error
           /\ Len(Appended) = 2
           /\ Appended[1] = Message("user", user_input)
           /\ Appended[2] = [role |-> "assistant", content |-> Str(answer)]
           /\ calls = tool_replies + 1
           /\ tool_results = << >>
           /\ opened = {}

C5_Witness ==
    /\ TurnOver
    /\ ended = "error"
    /\ error = <<"API Error: ", "overloaded">>
    /\ messages[Len(messages)].content = Str(<<"Error: ", "API Error: ", "overloaded">>)

Registry == {"read_file", "write_file", "list_files", "search_files"}

UnknownToolJson(name) == <<"{\"error\": \"", "Unknown tool: ", name, "\"}">>

\* C6: a ToolUseBlock whose name is not in the registry yields the result
\* {error: "Unknown tool: <name>"} without raising, and the loop continues:
\* the model is called again after the batch.
C6_UnknownToolLoopContinues ==
    /\ \A i \in 1..Len(tool_results) :
          tool_uses[i].name \notin Registry
              => tool_results[i].content = UnknownToolJson(tool_uses[i].name)
    /\ (TurnOver /\ \E i \in 1..Len(tool_uses) : tool_uses[i].name \notin Registry)
          => /\ ended # "fault"
             /\ Len(tool_results) = Len(tool_uses)
             /\ (calls = tool_replies + 1 \/ calls = safety_limit)

IsErrorJson(str) == Len(str) >= 1 /\ str[1] = "{\"error\": \""

\* C7: a batch of n ToolUseBlocks gives n results in request order, one per
\* request; a tool that raises or is unknown is recorded as an error result,
\* a read_file result is recorded as returned, and every later tool still runs.
C7_OneResultPerRequest ==
    /\ Len(tool_results) <= Len(tool_uses)
    /\ (pc = "await_tool" => Len(tool_results) < Len(tool_uses))
    /\ (TurnOver /\ tool_uses # << >> => Len(tool_results) = Len(tool_uses))
    /\ \A i \in 1..Len(tool_results) :
          /\ tool_results[i].tool_use_id = tool_uses[i].id
          /\ (tool_uses[i].name # "read_file" => IsErrorJson(tool_results[i].content))
          /\ (tool_uses[i].name = "read_file"
                => /\ tool_results[i].content =
                          json_dumps(_read_file(tool_uses[i].input.path).result)
                   /\ _read_file(tool_uses[i].input.path).opened \subseteq opened)

C7_Witness ==
    /\ TurnOver
    /\ Len(tool_uses) = 2
    /\ Len(tool_results) = 2
    /\ tool_uses[1].name = "write_file"
    /\ IsErrorJson(tool_results[1].content)
    /\ tool_uses[2].name = "read_file"
    /\ tool_uses[2].input.path = ArgInRoot
    /\ ~IsErrorJson(tool_results[2].content)
    /\ FileInRoot \in opened

HasBlocks(msg) == "blocks" \in DOMAIN msg.content

ToolResultIds(msg) ==
    IF HasBlocks(msg)
    THEN { msg.content.blocks[k].tool_use_id :
              k \in { j \in 1..Len(msg.content.blocks) :
                         msg.content.blocks[j].type = "tool_result" } }
    ELSE {}

ToolUseIds(msg) ==
    IF HasBlocks(msg)
    THEN { msg.content.blocks[k].id :
              k \in { j \in 1..Len(msg.content.blocks) :
                         msg.content.blocks[j].type = "tool_use" } }
    ELSE {}

\* C8: in every window built for an inference call, every tool_result block
\* carries the id of a ToolUseBlock of the assistant message just before the
\* message that holds the tool results.
C8_ResultsCorrelated ==
    \A i \in 1..Len(window) :
        ToolResultIds(window[i]) # {}
            => /\ i > 1
               /\ window[i].role = "user"
               /\ window[i - 1].role = "assistant"
               /\ ToolResultIds(window[i]) \subseteq ToolUseIds(window[i - 1])

C8_Witness ==
    /\ Len(window) >= 2
    /\ Cardinality(ToolResultIds(window[Len(window)])) = 2
    /\ Len(window[Len(window) - 1].content.blocks) = 2

\* the probe's count of current-turn additions, from its arguments
ProbeAdded ==
    (IF bm.user_in # None /\ bm.user_in # << >> THEN 1 ELSE 0)
    + (IF bm.assistant_content # << >> THEN 1 ELSE 0)
    + (IF bm.results # << >> THEN 1 ELSE 0)

\* positions of the last max_history records of the history
ProbeRecent ==
    { j \in 1..Len(messages) : j > Len(messages) - bm.max_history }

\* those of them that are dicts with a role and a content
ProbeUsable == { j \in ProbeRecent : IsWellFormed(messages[j]) }

\* the i-th smallest position of ProbeUsable
ProbeNth(i) ==
    CHOOSE j \in ProbeUsable : Cardinality({ k \in ProbeUsable : k <= j }) = i

\* C9: the window holds at most max_history messages taken from the history;
\* they are the usable ones among its most recent max_history records, in
\* their original order and reduced to role and content; after them come only
\* the additions of the turn: user message, assistant content, tool results.
C9_WindowBound ==
    bm.phase = "out"
        => LET n == Len(bm.out) - ProbeAdded
           IN  /\ n >= 0
               /\ n <= bm.max_history
               /\ n = Cardinality(ProbeUsable)
               /\ \A i \in 1..n :
                     /\ bm.out[i].role = messages[ProbeNth(i)].role
                     /\ bm.out[i].content = messages[ProbeNth(i)].content
                     /\ DOMAIN bm.out[i] = {"role", "content"}
               /\ \A i \in (n + 1)..Len(bm.out) :
                     /\ bm.out[i].role =
                          (IF i = Len(bm.out) /\ bm.results # << >> THEN "user"
                           ELSE IF bm.assistant_content # << >>
                                   /\ i = Len(bm.out) - (IF bm.results # << >> THEN 1 ELSE 0)
                           THEN "assistant"
                           ELSE "user")
                     /\ (i = Len(bm.out) /\ bm.results # << >>
                            => ToolResultIds(bm.out[i])
                                  = { bm.results[k].tool_use_id : k \in 1..Len(bm.results) })
                     /\ (i = n + 1 /\ bm.user_in # None /\ bm.user_in # << >>
                            => bm.out[i].content = Str(bm.user_in))

C9_Witness ==
    /\ bm.phase = "out"
    /\ bm.max_history = 2
    /\ Len(messages) = 3
    /\ messages[1] = Message("assistant", <<"v">>)
    /\ "timestamp" \in DOMAIN messages[2]
    /\ messages[3] = Message("user", <<"u">>)
    /\ ProbeAdded = 3
    /\ Len(bm.out) = 5
    /\ bm.out[1].content = Str(<<"t">>)
    /\ bm.out[2] = Message("user", <<"u">>)

\* whether a resolved path lies in the directory tree of wd
Inside(file_path, wd) ==
    Len(file_path) >= Len(wd) /\ SubSeq(file_path, 1, Len(wd)) = wd

AccessDeniedJson ==
    <<"{\"error\": \"", "Access denied: path outside working directory", "\"}">>

\* C10: read_file on a path that resolves outside the working directory,
\* a sibling directory whose name starts with the root's name included,
\* returns an error result and does not open the file.
C10_SandboxContainment ==
    \A i \in 1..Len(tool_results) :
        LET file_path ==
                Resolve(PathJoin(working_directory,
                                 InputGet(tool_uses[i].input, "path", ArgEmpty)))
        IN  (tool_uses[i].name = "read_file" /\ ~Inside(file_path, working_directory))
                => /\ tool_results[i].content = AccessDeniedJson
                   /\ file_path \notin opened

C12_AtomicSave ==
    [][pc' = "dead" => store' \in {store, StoreOf(messages')}]_vars

\* C13: persistence round trip: while the history file holds what a
\* completed save wrote, load_history of a fresh agent on that file yields a
\* list identical to the history in memory.
C13_RoundTrip ==
    (pc # "dead" /\ store.state = "file" /\ store.text # << >>)
        => load_history(store) = messages

C13_Witness ==
    /\ ended = "final"
    /\ Len(messages) >= 3
    /\ \E i \in 1..Len(messages[Len(messages)].content.str) :
           messages[Len(messages)].content.str[i] = Quote
    /\ store.state = "file"
    /\ Len(store.text) > 2
    /\ load_history(store) = messages

\* the file is missing, cannot be opened, or holds no complete JSON text
Unusable(file) == file.state # "file" \/ ~json_load(file.text).ok

\* C14: load_history on a missing or unparsable history file leaves the
\* history empty and does not raise: an agent constructed on any file the
\* program can leave behind that is missing or unparsable starts with [], and
\* the agent that found its file missing or partly written runs with [].
C14_LoadTolerant ==
    /\ Unusable(store) => load_history(store) = << >>
    /\ (pc # "dead" /\ store \in {StoreMissing, StorePartial}) => messages = << >>

C14_Witness ==
    /\ pc = "prompt"
    /\ store = StorePartial
    /\ Len(store.text) > 10
    /\ ~json_load(store.text).ok
    /\ messages = << >>

\* C15: ordering within a turn. While the model or a tool is awaited, the
\* turn has recorded the user message and nothing else, and a file that was
\* written holds it; the final assistant message is in the history only when
\* every tool request of the batch has its result.
C15_TurnOrdering ==
    /\ pc \in {"await_model", "await_tool"} =>
        /\ calls >= 1
        /\ Appended = <<[role |-> "user", content |-> Str(user_input)]>>
        /\ (store.state = "file" /\ store.text # << >>) =>
               load_history(store) = messages
    /\ TurnOver =>
        /\ Appended[1] = [role |-> "user", content |-> Str(user_input)]
        /\ Len(Appended) <= 2
        /\ ended = "final" =>
            /\ IsAssistant(Appended[2])
            /\ tool_uses # << >>
            /\ Len(tool_results) = Len(tool_uses)

C15_Witness ==
    /\ ended = "final"
    /\ Len(tool_uses) = 2
    /\ Len(tool_results) = 2
    /\ Len(Appended) = 2
    /\ IsAssistant(Appended[2])
    /\ store = StoreOf(messages)

\* C16: the loop as written: a turn whose reply holds tool requests runs
\* that one batch and returns at once with the final answer; the model is
\* not called after a batch, so a turn makes at most one inference call and
\* runs at most one tool batch.
C16_OneCallOneBatch ==
    /\ calls <= 1
    /\ tool_replies <= 1
    /\ pc = "await_model" => tool_replies = 0
    /\ (TurnOver /\ tool_replies = 1) =>
        /\ calls = 1
        /\ ended = "final"
        /\ Len(tool_results) = Len(tool_uses)
        /\ answer = FinalResponse(last_complete_response, 1)
        /\ messages[Len(messages)] = [role |-> "assistant", content |-> Str(answer)]

C16_Witness ==
    /\ TurnOver
    /\ calls = 1
    /\ tool_replies = 1
    /\ Len(tool_results) = 2
    /\ answer = Fallback

\* C17: within a turn at most one long-latency operation is in flight:
\* while the model is awaited no tool is, and the call in flight is the last
\* one made; while a batch runs, the tool in flight is the one after the
\* results already returned, which are those of the requests before it, in
\* order; when nothing is awaited nothing is in flight.
C17_OneInFlight ==
    /\ Cardinality(inflight) <= 1
    /\ pc = "await_model" => inflight = {<<"inference", calls>>}
    /\ pc = "await_tool" =>
        /\ Len(tool_results) < Len(tool_uses)
        /\ inflight = {<<"tool", Len(tool_results) + 1>>}
        /\ \A j \in 1..Len(tool_results) :
               tool_results[j].tool_use_id = tool_uses[j].id
    /\ pc \in {"prompt", "returned", "dead"} => inflight = {}

C17_Witness ==
    /\ pc = "await_tool"
    /\ Len(tool_uses) = 2
    /\ Len(tool_results) = 1
    /\ inflight = {<<"tool", 2>>}

\* C18: a failed save is not fatal. In a turn whose saves fail (the file is
\* a directory, or was left empty by a failed write) the user message is in
\* the in-memory history all the same, the turn goes on to the model and
\* the tools, the window sent is the one built from the in-memory history,
\* and the turn's answer is appended in memory as well.
C18_SaveFailureNonFatal ==
    /\ pc = "await_model" =>
           window = build_messages_list(messages, user_input, << >>, << >>,
                                        max_history_default)
    /\ (Unusable(store) /\ pc \in {"await_model", "await_tool"}) =>
           Appended = <<[role |-> "user", content |-> Str(user_input)]>>
    /\ (Unusable(store) /\ TurnOver /\ ended \in {"final", "error", "fault"}) =>
           /\ answer # None
           /\ Appended = <<[role |-> "user", content |-> Str(user_input)],
                           [role |-> "assistant", content |-> Str(answer)]>>

C18_Witness ==
    /\ store = StoreDirectory
    /\ load_history(store) = << >>
    /\ TurnOver
    /\ ended = "final"
    /\ Len(tool_results) = 2
    /\ Len(messages) = 2
    /\ window # << >>

\* C19: build_messages_list has no side effects: whatever its arguments, a
\* call leaves self.messages and the history file as they were; the raw
\* assistant content and the tool results it is given are in the returned
\* window only.
C19_BuildHasNoEffect ==
    [][(bm.phase = "in" /\ bm'.phase = "out") =>
          /\ messages' = messages
          /\ store' = store
          /\ load_history(store') = messages']_vars

C19_Witness ==
    /\ bm.phase = "out"
    /\ bm.assistant_content # << >>
    /\ bm.results # << >>
    /\ bm.user_in = <<"q">>
    /\ Len(messages) = 2
    /\ Len(bm.out) = 5
    /\ store = StoreOf(messages)

\* the positions of the window that hold the current user input as a user
\* message
InputAt ==
    { i \in 1..Len(window) :
        window[i] = [role |-> "user", content |-> Str(user_input)] }

\* C20: the window submitted on the first inference call of a turn holds
\* the current user input exactly once, and no two consecutive messages of
\* it are the same user message.
C20_InputOnce ==
    (pc = "await_model" /\ calls = 1) =>
        /\ Cardinality(InputAt) = 1
        /\ \A i \in 1..(Len(window) - 1) :
               ~(window[i] = window[i + 1] /\ window[i].role = "user")

====
